---- MODULE Spec2Model ----
(***************************************************************************)
(* cashflower/graph.py: analysis of model-variable formulas.               *)
(*                                                                         *)
(*   raise_error_if_incorrect_argument  the argument check of one call     *)
(*   CallVisitor / get_calls            the calls a formula makes          *)
(*   CalcDirectionVisitor /                                                *)
(*   get_calc_direction                 the calculation direction          *)
(*   get_predecessors                   breadth-first predecessor closure  *)
(*                                                                         *)
(* A formula is the syntax tree that ast.parse(inspect.getsource(func))    *)
(* yields; the nodes are records tagged by "type" with the fields of the   *)
(* Python ast classes (Name.id, Constant.value, BinOp.left/op/right,       *)
(* Call.func/args, Attribute.value/attr, UnaryOp.op/operand,               *)
(* FunctionDef.body, Return.value).                                        *)
(***************************************************************************)
EXTENDS Integers, Sequences, FiniteSets

VARIABLES
    pc,             \* position of the running operation
    node,           \* validator: the ast.Call under check; closure: the node being expanded
    error,          \* the exception raised and not caught (NoError while none)
    variable,       \* get_calls: the name of the variable analysed
    variables,      \* get_calls / get_calc_direction: the ordered list of variable names
    func,           \* variable name -> syntax tree of its formula
    todo,           \* the Call nodes the running ast.NodeVisitor.visit has still to dispatch
    calls,          \* CallVisitor.calls
    result,         \* get_calls: the list returned
    idx,            \* get_calc_direction: index of the variable of the for loop
    visitor_dir,    \* CalcDirectionVisitor.calc_direction
    calc_direction, \* variable name -> its calc_direction attribute
    writes,         \* variable name -> number of assignments to its calc_direction
    DG,             \* get_predecessors: the edges <<u, v>> of the directed graph
    start,          \* get_predecessors: the node argument
    queue,          \* get_predecessors: the FIFO queue
    visited,        \* get_predecessors: the list visited
    puts            \* graph node -> number of queue.put calls made with it

vars == <<pc, node, error, variable, variables, func, todo, calls, result, idx,
          visitor_dir, calc_direction, writes, DG, start, queue, visited, puts>>

(***************************************************************************)
(* Bounds of the model.                                                    *)
(***************************************************************************)
\* integer literals are 0..MaxOffset
MaxOffset == 2
\* a call has at most MaxArgs arguments
MaxArgs == 2
\* the formulas given to one operation hold at most MaxCalls Call nodes in all
MaxCalls == 2
\* get_calc_direction is given at most MaxGroup variables
MaxGroup == 2
\* graphs have the nodes 1..NumNodes and at most MaxEdges edges
NumNodes == 3
MaxEdges == 4

(***************************************************************************)
(* Syntax trees.                                                           *)
(***************************************************************************)
Name(id) == [type |-> "Name", id |-> id]
\* pytype is type(value).__name__; a float 1.0 and the bool True carry value 1
Constant(pytype, value) == [type |-> "Constant", pytype |-> pytype, value |-> value]
BinOp(left, op, right) == [type |-> "BinOp", left |-> left, op |-> op, right |-> right]
UnaryOp(op, operand) == [type |-> "UnaryOp", op |-> op, operand |-> operand]
Attribute(value, attr) == [type |-> "Attribute", value |-> value, attr |-> attr]
Call(f, args) == [type |-> "Call", func |-> f, args |-> args]
Return(value) == [type |-> "Return", value |-> value]
FunctionDef(body) == [type |-> "FunctionDef", body |-> body]

\* isinstance(value, int): bool is a subclass of int
IsInstanceInt(c) == c.pytype \in {"int", "bool"}

NoError == [exception |-> "none", msg |-> "", id |-> ""]
CashflowModelError(msg, id) == [exception |-> "CashflowModelError", msg |-> msg, id |-> id]
IndexError == [exception |-> "IndexError", msg |-> "list index out of range", id |-> ""]

\* the check without its last test: an argument that is no Name, Constant or
\* BinOp passes
raise_error_without_last_test(n) ==
    IF Len(n.args) # 1
    THEN CashflowModelError("one_argument", n.func.id)
    ELSE LET arg == n.args[1]
             msg == CashflowModelError("argument_shape", n.func.id)
             check1 == arg.left.type = "Name" /\ arg.left.id = "t"
             check2 == arg.op = "Add" \/ arg.op = "Sub"
             check3 == arg.right.type = "Constant" /\ IsInstanceInt(arg.right)
         IN  IF arg.type = "Name" /\ ~(arg.id = "t") THEN msg
             ELSE IF arg.type = "Constant" /\ ~IsInstanceInt(arg) THEN msg
             ELSE IF arg.type = "BinOp" /\ ~(check1 /\ check2 /\ check3) THEN msg
             ELSE NoError

(***************************************************************************)
(* raise_error_if_incorrect_argument(node): the exception it raises, or    *)
(* NoError when it returns.                                                *)
(***************************************************************************)
raise_error_if_incorrect_argument(n) ==
    IF Len(n.args) # 1
    THEN CashflowModelError("one_argument", n.func.id)
    ELSE LET arg == n.args[1]
             msg == CashflowModelError("argument_shape", n.func.id)
             check1 == arg.left.type = "Name" /\ arg.left.id = "t"
             check2 == arg.op = "Add" \/ arg.op = "Sub"
             check3 == arg.right.type = "Constant" /\ IsInstanceInt(arg.right)
         IN  IF arg.type = "Name" /\ ~(arg.id = "t") THEN msg
             ELSE IF arg.type = "Constant" /\ ~IsInstanceInt(arg) THEN msg
             ELSE IF arg.type = "BinOp" /\ ~(check1 /\ check2 /\ check3) THEN msg
             ELSE IF ~(arg.type = "Name" \/ arg.type = "Constant" \/ arg.type = "BinOp") THEN msg
             ELSE NoError

(***************************************************************************)
(* ast.NodeVisitor.visit(n) for a visitor whose only method is visit_Call  *)
(* and whose visit_Call does not call generic_visit (CallVisitor and       *)
(* CalcDirectionVisitor alike): generic_visit walks the fields of every    *)
(* other node in order, and a Call node is handed to visit_Call, which     *)
(* visits nothing below it.  The value is the sequence of Call nodes       *)
(* handed to visit_Call, in order.                                         *)
(***************************************************************************)
RECURSIVE visit(_)
RECURSIVE visit_list(_)
visit_list(ns) ==
    IF ns = <<>> THEN <<>> ELSE visit(Head(ns)) \o visit_list(Tail(ns))

visit(n) ==
    CASE n.type = "Call" -> <<n>>
      [] n.type = "BinOp" -> visit(n.left) \o visit(n.right)
      [] n.type = "UnaryOp" -> visit(n.operand)
      [] n.type = "Attribute" -> visit(n.value)
      [] n.type = "Return" -> visit(n.value)
      [] n.type = "FunctionDef" -> visit_list(n.body)
      [] OTHER -> <<>>

(***************************************************************************)
(* The inputs: argument expressions, calls and formulas.                   *)
(***************************************************************************)
T == Name("t")
IntLiterals == {Constant("int", k) : k \in 0..MaxOffset}
OtherLiterals == {Constant("bool", 1), Constant("float", 1), Constant("str", 0)}

\* every kind of expression a call can carry as its argument
ArgShapes ==
    {T, Name("x")} \cup IntLiterals \cup OtherLiterals
    \cup {BinOp(l, o, r) : l \in {T, Name("x"), Constant("int", 1)},
                           o \in {"Add", "Sub", "Mult"},
                           r \in IntLiterals \cup OtherLiterals \cup {T, Name("x")}}
    \cup {BinOp(BinOp(T, "Add", Constant("int", 1)), "Add", Constant("int", 1)),
          UnaryOp("USub", Constant("int", 1)),
          Call(Name("g"), <<T>>)}

RECURSIVE Repeat(_, _)
Repeat(x, n) == IF n = 0 THEN <<>> ELSE <<x>> \o Repeat(x, n - 1)

\* argument lists of every length 0..MaxArgs
ValidatorArgLists ==
    {<<>>} \cup {<<a>> : a \in ArgShapes}
    \cup {<<a>> \o Repeat(Constant("int", 1), n - 1) : a \in {T, Name("x")}, n \in 2..MaxArgs}

ValidatorCalls == {Call(Name(c), a) : c \in {"f", "other"}, a \in ValidatorArgLists}

\* The shape of an expression, its calls left open: one call, a call whose one
\* argument is an expression, or the product of two expressions
CallShape == [shape |-> "Call"]
NestShape(inner) == [shape |-> "Nest", inner |-> inner]
BinOpShape(left, right) == [shape |-> "BinOp", left |-> left, right |-> right]
\* one call times the name r, as in f(t-1) * r, and an expression without calls
ScaledShape == [shape |-> "Scaled"]
NoCallShape == [shape |-> "NoCall"]

\* the shapes holding exactly n Call nodes, n >= 1
RECURSIVE Shapes(_)
Shapes(n) ==
    IF n = 1
    THEN {CallShape}
    ELSE UNION {{BinOpShape(l, r) : l \in Shapes(i), r \in Shapes(n - i)} : i \in 1..(n - 1)}
         \cup {NestShape(s) : s \in Shapes(n - 1)}

\* the shapes of the function bodies holding exactly n Call nodes
FormulaShapes(n) ==
    IF n = 0 THEN {NoCallShape}
    ELSE IF n = 1 THEN {CallShape, ScaledShape}
    ELSE Shapes(n)

RECURSIVE Size(_)
Size(s) ==
    CASE s.shape = "Nest" -> 1 + Size(s.inner)
      [] s.shape = "BinOp" -> Size(s.left) + Size(s.right)
      [] s.shape = "NoCall" -> 0
      [] OTHER -> 1

\* the expression of shape s whose k-th Call node, in source order from number
\* first on, calls callee[k], with the arguments arglist[k] where the shape gives none
RECURSIVE Expr(_, _, _, _)
Expr(s, first, callee, arglist) ==
    CASE s.shape = "Call" -> Call(callee[first], arglist[first])
      [] s.shape = "Nest" ->
            Call(callee[first], <<Expr(s.inner, first + 1, callee, arglist)>>)
      [] s.shape = "BinOp" ->
            BinOp(Expr(s.left, first, callee, arglist), "Mult",
                  Expr(s.right, first + Size(s.left), callee, arglist))
      [] s.shape = "Scaled" ->
            BinOp(Call(callee[first], arglist[first]), "Mult", Name("r"))
      [] OTHER -> Name("r")

\* ast.parse(inspect.getsource(variable.func)): a function that returns the expression
Formula(s, first, callee, arglist) ==
    FunctionDef(<<Return(Expr(s, first, callee, arglist))>>)

(***************************************************************************)
(* The state of the operations that are not running.                       *)
(***************************************************************************)
NoNode == Name("")
NoFunc == [v \in {} |-> NoNode]

IdleVisitor ==
    /\ variable = ""
    /\ variables = <<>>
    /\ func = NoFunc
    /\ todo = <<>>
    /\ calls = <<>>
    /\ result = <<>>
    /\ idx = 0
    /\ visitor_dir = "irrelevant"
    /\ calc_direction = NoFunc
    /\ writes = NoFunc

IdleGraph ==
    /\ DG = {}
    /\ start = 0
    /\ queue = <<>>
    /\ visited = <<>>
    /\ puts = NoFunc

visitorVars == <<variable, variables, func, todo, calls, result, idx,
                 visitor_dir, calc_direction, writes>>
graphVars == <<DG, start, queue, visited, puts>>

(***************************************************************************)
(* The validator on its own: one call, one check.                          *)
(***************************************************************************)
InitValidate ==
    /\ pc = "validate"
    /\ node \in ValidatorCalls
    /\ error = NoError
    /\ IdleVisitor
    /\ IdleGraph

Validate ==
    /\ pc = "validate"
    /\ error' = raise_error_if_incorrect_argument(node)
    /\ pc' = IF error' = NoError THEN "returned" ELSE "raised"
    /\ UNCHANGED <<node, visitorVars, graphVars>>

NextValidate == Validate

SpecValidate == InitValidate /\ [][NextValidate]_vars

(***************************************************************************)
(* get_calls(variable, variables).                                         *)
(***************************************************************************)
\* the model's variables, in the order of the list given to get_calls
KnownVariables == <<"f", "g">>

Range(seq) == {seq[i] : i \in 1..Len(seq)}

\* variable_names = [variable.name for variable in variables]
variable_names == Range(variables)

CallsCallees ==
    {Name(KnownVariables[i]) : i \in 1..Len(KnownVariables)}
    \cup {Name("max"), Attribute(Name("main"), "get")}

CallsArgLists ==
    {<<>>, <<T>>, <<BinOp(T, "Sub", Constant("int", 1))>>,
     <<BinOp(T, "Mult", Constant("int", 2))>>}
    \cup {<<T>> \o Repeat(Constant("int", 1), n - 1) : n \in 2..MaxArgs}

InitCalls ==
    /\ pc = "get_calls"
    /\ variables = KnownVariables
    /\ variable \in Range(KnownVariables)
    /\ \E n \in 0..MaxCalls :
          \E s \in FormulaShapes(n) :
             \E callee \in [1..n -> CallsCallees], arglist \in [1..n -> CallsArgLists] :
                func = [v \in {variable} |-> Formula(s, 1, callee, arglist)]
    /\ node = NoNode
    /\ error = NoError
    /\ todo = <<>>
    /\ calls = <<>>
    /\ result = <<>>
    /\ idx = 0
    /\ visitor_dir = "irrelevant"
    /\ calc_direction = NoFunc
    /\ writes = NoFunc
    /\ IdleGraph

\* lines 26-30: the visitor is made and its walk of the parsed source begins
get_calls_visit ==
    /\ pc = "get_calls"
    /\ calls' = <<>>
    /\ todo' = visit(func[variable])
    /\ pc' = "call_visitor"
    /\ UNCHANGED <<node, error, variable, variables, func, result, idx,
                   visitor_dir, calc_direction, writes, graphVars>>

\* CallVisitor.visit_Call(node) on the next Call node of the walk
CallVisitor_visit_Call ==
    /\ pc = "call_visitor"
    /\ todo # <<>>
    /\ node' = Head(todo)
    /\ IF node'.func.type = "Name" /\ node'.func.id \in variable_names
       THEN LET e == raise_error_if_incorrect_argument(node')
            IN  IF e # NoError
                THEN /\ error' = e
                     /\ pc' = "raised"
                     /\ UNCHANGED <<todo, calls>>
                ELSE /\ calls' = Append(calls, node'.func.id)
                     /\ todo' = Tail(todo)
                     /\ UNCHANGED <<error, pc>>
       ELSE /\ todo' = Tail(todo)
            /\ UNCHANGED <<calls, error, pc>>
    /\ UNCHANGED <<variable, variables, func, result, idx,
                   visitor_dir, calc_direction, writes, graphVars>>

\* the list without the test call_name != variable.name
get_calls_list_with_self(call_names, v) == call_names

\* line 32: get_object_by_name(variables, call_name) is the variable of that name
get_calls_list(call_names, v) ==
    SelectSeq(call_names, LAMBDA call_name : call_name # v)

\* lines 31-33: the walk is over
get_calls_return ==
    /\ pc = "call_visitor"
    /\ todo = <<>>
    /\ result' = get_calls_list(calls, variable)
    /\ pc' = "returned"
    /\ UNCHANGED <<node, error, variable, variables, func, todo, calls, idx,
                   visitor_dir, calc_direction, writes, graphVars>>

NextCalls ==
    \/ get_calls_visit
    \/ CallVisitor_visit_Call
    \/ get_calls_return

SpecCalls == InitCalls /\ [][NextCalls]_vars

(***************************************************************************)
(* get_calc_direction(variables).                                          *)
(***************************************************************************)
\* the names of a group's variables: a group of n variables is the first n
GroupNames == <<"f", "g", "h", "k">>

\* the names called: the first variable of every group, the second (a member
\* of the groups of two and more, no member of a group of one) and a builtin
DirectionCallees == {Name("f"), Name("g"), Name("max")}

DirectionArgLists ==
    {<<>>, <<T>>, <<Constant("int", 1)>>,
     <<BinOp(T, "Add", Constant("int", 1))>>,
     <<BinOp(T, "Sub", Constant("int", 1))>>,
     <<BinOp(T, "Mult", Constant("int", 2))>>}

\* the lists of n formula shapes that hold at most m Call nodes in all
RECURSIVE ShapeLists(_, _)
ShapeLists(n, m) ==
    IF n = 0 THEN {<<>>}
    ELSE UNION {{<<s>> \o rest : s \in FormulaShapes(c), rest \in ShapeLists(n - 1, m - c)}
                : c \in 0..m}

RECURSIVE TotalSize(_)
TotalSize(ss) == IF ss = <<>> THEN 0 ELSE Size(Head(ss)) + TotalSize(Tail(ss))

IndexOf(seq, x) == CHOOSE i \in 1..Len(seq) : seq[i] = x

InitDirection ==
    /\ pc = "get_calc_direction"
    /\ \E n \in 1..MaxGroup :
          /\ variables = SubSeq(GroupNames, 1, n)
          /\ \E ss \in ShapeLists(n, MaxCalls) :
                \E callee \in [1..TotalSize(ss) -> DirectionCallees],
                   arglist \in [1..TotalSize(ss) -> DirectionArgLists] :
                   func = [v \in Range(variables) |->
                              LET i == IndexOf(variables, v)
                              IN  Formula(ss[i], 1 + TotalSize(SubSeq(ss, 1, i - 1)),
                                          callee, arglist)]
    \* the attribute as the model layer leaves it (irrelevant by default); no
    \* property reads it before get_calc_direction has assigned it
    /\ calc_direction = [v \in Range(variables) |-> "irrelevant"]
    /\ writes = [v \in Range(variables) |-> 0]
    /\ node = NoNode
    /\ error = NoError
    /\ variable = ""
    /\ todo = <<>>
    /\ calls = <<>>
    /\ result = <<>>
    /\ idx = 0
    /\ visitor_dir = "irrelevant"
    /\ IdleGraph

\* lines 13-15: the one visitor of the call is made
get_calc_direction_begin ==
    /\ pc = "get_calc_direction"
    /\ visitor_dir' = "irrelevant"
    /\ idx' = 1
    /\ todo' = visit(func[variables[1]])
    /\ pc' = "direction_visitor"
    /\ UNCHANGED <<node, error, variable, variables, func, calls, result,
                   calc_direction, writes, graphVars>>

\* the two directions exchanged: t+... forward, t-... backward
direction_of_exchanged(n, dir) ==
    LET arg == n.args[1]
        check1 == arg.left.type = "Name" /\ arg.left.id = "t"
        check2 == arg.op = "Add"
        check3 == arg.op = "Sub"
    IN  IF arg.type = "BinOp"
        THEN IF check1 /\ check3 THEN "backward"
             ELSE IF check1 /\ check2 THEN "forward"
             ELSE dir
        ELSE dir

\* lines 109-120: the direction visit_Call leaves, for a call with an argument
direction_of(n, dir) ==
    LET arg == n.args[1]
        check1 == arg.left.type = "Name" /\ arg.left.id = "t"
        check2 == arg.op = "Add"
        check3 == arg.op = "Sub"
    IN  IF arg.type = "BinOp"
        THEN IF check1 /\ check3 THEN "forward"
             ELSE IF check1 /\ check2 THEN "backward"
             ELSE dir
        ELSE dir

\* CalcDirectionVisitor.visit_Call(node) on the next Call node of the walk
CalcDirectionVisitor_visit_Call ==
    /\ pc = "direction_visitor"
    /\ todo # <<>>
    /\ node' = Head(todo)
    /\ IF node'.func.type = "Name" /\ node'.func.id \in variable_names
       THEN IF node'.args = <<>>
            THEN /\ error' = IndexError
                 /\ pc' = "raised"
                 /\ UNCHANGED <<todo, visitor_dir>>
            ELSE /\ visitor_dir' = direction_of(node', visitor_dir)
                 /\ todo' = Tail(todo)
                 /\ UNCHANGED <<error, pc>>
       ELSE /\ todo' = Tail(todo)
            /\ UNCHANGED <<visitor_dir, error, pc>>
    /\ UNCHANGED <<variable, variables, func, calls, result, idx,
                   calc_direction, writes, graphVars>>

\* the loop with a visitor of its own for every variable
get_calc_direction_assign_fresh_visitor ==
    /\ pc = "direction_visitor"
    /\ todo = <<>>
    /\ calc_direction' = [calc_direction EXCEPT ![variables[idx]] = visitor_dir]
    /\ writes' = [writes EXCEPT ![variables[idx]] = @ + 1]
    /\ IF idx < Len(variables)
       THEN /\ idx' = idx + 1
            /\ todo' = visit(func[variables[idx + 1]])
            /\ visitor_dir' = "irrelevant"
            /\ pc' = pc
       ELSE /\ pc' = "returned"
            /\ UNCHANGED <<idx, todo, visitor_dir>>
    /\ UNCHANGED <<node, error, variable, variables, func, calls, result, graphVars>>

\* lines 16-21: the walk of one variable is over; its direction is assigned and
\* the loop goes on to the next variable, or the function returns
get_calc_direction_assign ==
    /\ pc = "direction_visitor"
    /\ todo = <<>>
    /\ calc_direction' = [calc_direction EXCEPT ![variables[idx]] = visitor_dir]
    /\ writes' = [writes EXCEPT ![variables[idx]] = @ + 1]
    /\ IF idx < Len(variables)
       THEN /\ idx' = idx + 1
            /\ todo' = visit(func[variables[idx + 1]])
            /\ pc' = pc
       ELSE /\ pc' = "returned"
            /\ UNCHANGED <<idx, todo>>
    /\ UNCHANGED <<node, error, variable, variables, func, calls, result,
                   visitor_dir, graphVars>>

NextDirection ==
    \/ get_calc_direction_begin
    \/ CalcDirectionVisitor_visit_Call
    \/ get_calc_direction_assign

SpecDirection == InitDirection /\ [][NextDirection]_vars

(***************************************************************************)
(* get_predecessors(node, DG).                                             *)
(***************************************************************************)
Nodes == 1..NumNodes

\* DG.successors(n) in its place: the nodes with an edge from n
successors(n) == {u \in Nodes : <<n, u>> \in DG}

\* DG.predecessors(n): the nodes with an edge into n
predecessors(n) == {u \in Nodes : <<u, n>> \in DG}

\* the orders in which a set can be iterated
Orders(S) == {o \in [1..Cardinality(S) -> S] : \A i, j \in 1..Cardinality(S) :
                                                   i # j => o[i] # o[j]}

InitPredecessors ==
    /\ pc = "get_predecessors"
    /\ DG \in {E \in SUBSET (Nodes \X Nodes) : Cardinality(E) <= MaxEdges}
    /\ node \in Nodes
    /\ start = node
    /\ queue = <<>>
    /\ visited = <<>>
    /\ puts = [n \in Nodes |-> 0]
    /\ error = NoError
    /\ IdleVisitor

\* lines 38-42
get_predecessors_begin ==
    /\ pc = "get_predecessors"
    /\ queue' = <<node>>
    /\ visited' = <<node>>
    /\ puts' = [puts EXCEPT ![node] = @ + 1]
    /\ pc' = "while"
    /\ UNCHANGED <<node, error, DG, start, visitorVars>>

\* the test against the nodes still queued instead of the nodes visited
new_children_not_queued(n, seen) == {child \in predecessors(n) : child \notin Range(queue)}

\* line 47: the children of n that the for loop puts on the queue
new_children(n, seen) == {child \in predecessors(n) : child \notin Range(seen)}

\* lines 44-49: one turn of the while loop, the whole for loop included; the
\* graph yields the predecessors in an order of its own
get_predecessors_while ==
    /\ pc = "while"
    /\ queue # <<>>
    /\ node' = Head(queue)
    /\ \E order \in Orders(new_children(node', visited)) :
          /\ queue' = Tail(queue) \o order
          /\ visited' = visited \o order
          /\ puts' = [n \in Nodes |-> IF n \in Range(order) THEN puts[n] + 1 ELSE puts[n]]
    /\ UNCHANGED <<pc, error, DG, start, visitorVars>>

\* line 51
get_predecessors_return ==
    /\ pc = "while"
    /\ queue = <<>>
    /\ pc' = "returned"
    /\ UNCHANGED <<node, error, DG, start, queue, visited, puts, visitorVars>>

NextPredecessors ==
    \/ get_predecessors_begin
    \/ get_predecessors_while
    \/ get_predecessors_return

SpecPredecessors == InitPredecessors /\ [][NextPredecessors]_vars

\* the function runs on one thread that nothing suspends: each step it can take, it takes
FairPredecessors == SpecPredecessors /\ WF_vars(NextPredecessors)

(***************************************************************************)
(* What the properties speak of.                                           *)
(***************************************************************************)
\* every Call node of a tree, in source order: the complete walk
RECURSIVE AllCalls(_)
RECURSIVE AllCallsOf(_)
AllCallsOf(ns) ==
    IF ns = <<>> THEN <<>> ELSE AllCalls(Head(ns)) \o AllCallsOf(Tail(ns))

AllCalls(n) ==
    CASE n.type = "Call" -> <<n>> \o AllCalls(n.func) \o AllCallsOf(n.args)
      [] n.type = "BinOp" -> AllCalls(n.left) \o AllCalls(n.right)
      [] n.type = "UnaryOp" -> AllCalls(n.operand)
      [] n.type = "Attribute" -> AllCalls(n.value)
      [] n.type = "Return" -> AllCalls(n.value)
      [] n.type = "FunctionDef" -> AllCallsOf(n.body)
      [] OTHER -> <<>>

\* the calls among cs whose callee is a bare name in names
CallsTo(cs, names) ==
    SelectSeq(cs, LAMBDA n : n.func.type = "Name" /\ n.func.id \in names)

CalleeNames(cs) == [i \in 1..Len(cs) |-> cs[i].func.id]

Count(seq, x) == Cardinality({i \in 1..Len(seq) : seq[i] = x})

Finished == pc \in {"returned", "raised"}

(***************************************************************************)
(* The argument check.                                                     *)
(***************************************************************************)
\* constants whose value is an instance of int: integer literals, True and False
IntInstanceLiterals == IntLiterals \cup {Constant("bool", 0), Constant("bool", 1)}

\* t, an int-instance constant, or t plus or minus such a constant (0 included)
AcceptedShape(arg) ==
    \/ arg = T
    \/ arg \in IntInstanceLiterals
    \/ \E o \in {"Add", "Sub"}, c \in IntInstanceLiterals : arg = BinOp(T, o, c)

\* t, an int-instance constant, or t plus or minus such a constant greater than 0
FourShapes(arg) ==
    \/ arg = T
    \/ arg \in IntInstanceLiterals
    \/ \E o \in {"Add", "Sub"}, c \in IntInstanceLiterals :
          c.value > 0 /\ arg = BinOp(T, o, c)

\* C4 as stated: a call with exactly one argument is accepted if and only if
\* the argument is t, a literal integer, or t plus or minus a positive literal
\* integer, and is otherwise rejected with the shape error naming the callee.
C4_FourShapesOnly ==
    (Finished /\ Len(node.args) = 1)
        => /\ (pc = "returned") <=> FourShapes(node.args[1])
           /\ (pc = "raised") => error = CashflowModelError("argument_shape", node.func.id)

\* C4 amended: a call with exactly one argument is accepted if and only if the
\* argument is t, a constant whose value is an instance of int (an integer
\* literal, True or False), or t plus or minus such a constant, zero included;
\* every other argument is rejected with the shape error naming the callee.
C4_AcceptedShapes ==
    (Finished /\ Len(node.args) = 1)
        => /\ (pc = "returned") <=> AcceptedShape(node.args[1])
           /\ (pc = "returned") <=> (error = NoError)
           /\ (pc = "raised") => error = CashflowModelError("argument_shape", node.func.id)

\* t+0 has been accepted, and t*2 is a shape the check rejects
C4_Witness ==
    /\ pc = "returned"
    /\ node.args = <<BinOp(T, "Add", Constant("int", 0))>>
    /\ raise_error_if_incorrect_argument(Call(Name("f"), <<BinOp(T, "Mult", Constant("int", 2))>>))
          = CashflowModelError("argument_shape", "f")

(***************************************************************************)
(* get_calls.                                                              *)
(***************************************************************************)
KnownCalls == CallsTo(AllCalls(func[variable]), variable_names)

\* C3: the walk is complete: a list is returned only when every call of a known
\* variable, wherever it stands in the formula, passed the argument check, and
\* each of them is recorded.
C3_CompleteWalk ==
    (pc = "returned")
        => /\ \A i \in 1..Len(KnownCalls) :
                 raise_error_if_incorrect_argument(KnownCalls[i]) = NoError
           /\ calls = CalleeNames(KnownCalls)

ArityCalls == SelectSeq(KnownCalls, LAMBDA n : Len(n.args) # 1)
ShapeCalls ==
    SelectSeq(KnownCalls, LAMBDA n : Len(n.args) = 1
                                    /\ raise_error_if_incorrect_argument(n) # NoError)

\* C5: a formula that holds a call of a known variable with no argument or with
\* several makes get_calls fail and return no list; the failure is the arity
\* error naming such a call (when a call of a wrong shape stands in the formula
\* too, the shape error of that call is let pass here).
C5_ArityFails ==
    (Finished /\ ArityCalls # <<>>)
        => /\ pc = "raised"
           /\ result = <<>>
           /\ \/ \E i \in 1..Len(ArityCalls) :
                    error = CashflowModelError("one_argument", ArityCalls[i].func.id)
              \/ \E i \in 1..Len(ShapeCalls) :
                    error = CashflowModelError("argument_shape", ShapeCalls[i].func.id)

\* C7 as stated: no name stands twice in the list returned, and the variable's
\* own name is not in it.
C7_DistinctCalls ==
    (pc = "returned")
        => /\ \A i \in 1..Len(result) : Count(result, result[i]) = 1
           /\ variable \notin Range(result)

\* the calls of other known variables that visit_Call was given
RecordedOthers ==
    CalleeNames(CallsTo(visit(func[variable]), variable_names \ {variable}))

\* C7 amended: the list returned never holds the variable's own name; it holds
\* one entry for every call of another known variable that the visitor was
\* given, in the order of the walk, so a variable called twice stands twice.
C7_OneEntryPerCall ==
    (pc = "returned")
        => /\ variable \notin Range(result)
           /\ result = RecordedOthers

\* f's formula called g twice: g stands twice in the list
C7_Witness ==
    /\ pc = "returned"
    /\ variable = "f"
    /\ result = <<"g", "g">>

(***************************************************************************)
(* get_calc_direction.                                                     *)
(***************************************************************************)
\* a call of v whose one argument is t plus (op "Add") or minus (op "Sub") something
Shifted(n, v, op) ==
    /\ n.func = Name(v)
    /\ Len(n.args) = 1
    /\ n.args[1].type = "BinOp"
    /\ n.args[1].left = T
    /\ n.args[1].op = op

\* a call of v that passes the argument check, with argument t op k, k > 0
ValidShift(n, v, op) ==
    /\ Shifted(n, v, op)
    /\ raise_error_if_incorrect_argument(n) = NoError
    /\ n.args[1].right.value > 0

\* cs holds a valid call v(t op k) and no other time-shifted call of v
OnlyShift(cs, v, op) ==
    \E i \in 1..Len(cs) :
        /\ ValidShift(cs[i], v, op)
        /\ \A j \in 1..Len(cs) :
              j # i => ~(Shifted(cs[j], v, "Add") \/ Shifted(cs[j], v, "Sub"))

\* C1 as stated, for the calls not enclosed in another call: after the
\* classification of the group [v], a formula that holds a valid call v(t+k)
\* and no other time-shifted call of v leaves v forward, and one that holds
\* v(t-k) instead leaves v backward.
C1_PlusForward ==
    (pc = "returned" /\ Len(variables) = 1)
        => LET v == variables[1]
               cs == visit(func[v])
           IN  /\ OnlyShift(cs, v, "Add") => calc_direction[v] = "forward"
               /\ OnlyShift(cs, v, "Sub") => calc_direction[v] = "backward"

\* C1 amended: after the classification of the group [v], a formula in which a
\* valid call v(t+k), not enclosed in another call, is the only time-shifted
\* call of v not so enclosed leaves v backward, and one with v(t-k) instead
\* leaves v forward.
C1_PlusBackward ==
    (pc = "returned" /\ Len(variables) = 1)
        => LET v == variables[1]
               cs == visit(func[v])
           IN  /\ OnlyShift(cs, v, "Add") => calc_direction[v] = "backward"
               /\ OnlyShift(cs, v, "Sub") => calc_direction[v] = "forward"

\* f(t) = f(t-1) * r, classified as the group [f], is forward
C1_Witness ==
    /\ pc = "returned"
    /\ variables = <<"f">>
    /\ func["f"] = FunctionDef(<<Return(BinOp(
                       Call(Name("f"), <<BinOp(T, "Sub", Constant("int", 1))>>),
                       "Mult", Name("r")))>>)
    /\ calc_direction["f"] = "forward"

\* v's formula calls w
CallsVariable(v, w) == CallsTo(AllCalls(func[v]), {w}) # <<>>

\* the group members that reach w along calls, in k steps or fewer
RECURSIVE CallersOf(_, _)
CallersOf(w, k) ==
    IF k = 0 THEN {w}
    ELSE LET near == CallersOf(w, k - 1)
         IN  near \cup {v \in variable_names : \E u \in near : CallsVariable(v, u)}

\* the group is one dependency cycle: every member calls every other, at some remove
OneCycle == \A w \in variable_names : CallersOf(w, Len(variables)) = variable_names

\* C2: when get_calc_direction has returned on a group that is one dependency
\* cycle, every member of the group has the same calc_direction.
C2_OneDirection ==
    (pc = "returned" /\ OneCycle)
        => \A v, w \in Range(variables) : calc_direction[v] = calc_direction[w]

\* the calls of group members that visit_Call is given in the formula of the i-th member
Inspected(i) == CallsTo(visit(func[variables[i]]), variable_names)

\* C6: a member whose formula holds an inspected call of a group member that
\* the argument check rejects is never assigned a calc_direction, and the only
\* failure of a classification is the error of the argument check.
C6_ClassifierValidates ==
    /\ \A i \in 1..Len(variables) :
          (\E j \in 1..Len(Inspected(i)) :
               raise_error_if_incorrect_argument(Inspected(i)[j]) # NoError)
              => writes[variables[i]] = 0
    /\ (pc = "raised") => error.exception = "CashflowModelError"

\* the direction a call signals: t+... backward, t-... forward, none otherwise
Signal(n) ==
    IF \E v \in variable_names : Shifted(n, v, "Add") THEN "backward"
    ELSE IF \E v \in variable_names : Shifted(n, v, "Sub") THEN "forward"
    ELSE "none"

\* the direction signalled by the last signalling call of cs, irrelevant if none
RECURSIVE LastSignal(_)
LastSignal(cs) ==
    IF cs = <<>> THEN "irrelevant"
    ELSE IF Signal(cs[Len(cs)]) # "none" THEN Signal(cs[Len(cs)])
    ELSE LastSignal(SubSeq(cs, 1, Len(cs) - 1))

\* the calls visit_Call is given in the formulas of the members 1..i, in order
RECURSIVE Found(_)
Found(i) == IF i = 0 THEN <<>> ELSE Found(i - 1) \o visit(func[variables[i]])

\* the members whose walk is over
Assigned ==
    IF pc = "get_calc_direction" THEN 0
    ELSE IF pc = "returned" THEN Len(variables)
    ELSE IF pc = "raised" THEN idx - 1
    ELSE idx - 1

\* the calls visit_Call has been given so far
Walked ==
    IF pc = "get_calc_direction" THEN <<>>
    ELSE IF pc = "returned" THEN Found(Len(variables))
    ELSE SubSeq(Found(idx), 1, Len(Found(idx)) - Len(todo))

RECURSIVE PathTo(_, _)
PathTo(n, k) ==
    IF k = 0 THEN {n}
    ELSE LET near == PathTo(n, k - 1)
         IN  near \cup {e[1] : e \in {d \in DG : d[2] \in near}}

\* C8: the list returned holds the nodes with a directed path of length >= 0 to
\* the start node, all of them and no other, the start node included, and none twice.
C8_Closure ==
    (pc = "returned")
        => /\ Range(visited) = PathTo(start, NumNodes)
           /\ start \in Range(visited)
           /\ \A i, j \in 1..Len(visited) : visited[i] = visited[j] => i = j

\* a graph with a cycle through the start node and a node off the cycle that
\* has no path to it
C8_Witness ==
    /\ pc = "returned"
    /\ start = 1
    /\ {<<1, 2>>, <<2, 1>>, <<1, 3>>} \subseteq DG
    /\ Range(visited) = {1, 2}

\* C9: the loop empties its queue and get_predecessors returns, and no node is
\* put on the queue twice.
C9_Terminates ==
    /\ <>(pc = "returned")
    /\ [](\A n \in Nodes : puts[n] <= 1)

\* a self-loop and a two-cycle have been walked to the end
C9_Witness ==
    /\ pc = "returned"
    /\ {<<1, 1>>, <<1, 2>>, <<2, 1>>} \subseteq DG
    /\ start = 1
    /\ puts[1] = 1
    /\ puts[2] = 1

====
